---------------------------- MODULE Spec2Model ----------------------------
(***************************************************************************)
(* Model of simple_enhanced_tools.py (BranitzMultiAgent): the address     *)
(* index (get_all_street_names), the street filter                        *)
(* (get_building_ids_for_street and the filter loop of the two analysis   *)
(* operations), the result aggregator of run_comprehensive_hp_analysis,   *)
(* the steps, output files and documents of the two analysis operations,  *)
(* and list_available_results.                                            *)
(*                                                                         *)
(* A Python str is a sequence of one-character strings, so that strip(),  *)
(* lower() and the ordering used by sorted() are computed, not assumed.   *)
(***************************************************************************)
EXTENDS Integers, Sequences, FiniteSets, TLC

VARIABLES file, call, STREET_FINAL_AVAILABLE, results_test, today, others

vars == <<file, call, STREET_FINAL_AVAILABLE, results_test, today, others>>

---------------------------------------------------------------------------
(* Bounds of the model *)

MaxStrLen == 2

MaxFeatures == 2

MaxAddr == 2

MaxEntries == 2

---------------------------------------------------------------------------
(* Python str *)

\* the characters of the model, in code point order (the order of sorted())
CharOrder == <<" ", ".", ":", "A", "E", "T", "a", "c", "d", "e", "f", "h", "i",
               "l", "m", "n", "o", "p", "r", "s", "t", "u", "w", "x", "y">>

Rank(c) == CHOOSE i \in 1..Len(CharOrder) : CharOrder[i] = c

\* the characters the bounded street names and queries are written with
Alphabet == {"a", "A", " "}

Whitespace == {" "}

LowerChar(c) == CASE c = "A" -> "a" [] c = "E" -> "e" [] c = "T" -> "t" [] OTHER -> c

\* str.lower()
Lower(s) == [i \in 1..Len(s) |-> LowerChar(s[i])]

RECURSIVE LStrip(_)
LStrip(s) == IF s # <<>> /\ Head(s) \in Whitespace THEN LStrip(Tail(s)) ELSE s

RECURSIVE RStrip(_)
RStrip(s) ==
    IF s # <<>> /\ s[Len(s)] \in Whitespace THEN RStrip(SubSeq(s, 1, Len(s) - 1)) ELSE s

\* str.strip()
Strip(s) == RStrip(LStrip(s))

\* s < t in Python's ordering of str: lexicographic by code point
RECURSIVE StrLess(_, _)
StrLess(s, t) ==
    IF t = <<>> THEN FALSE
    ELSE IF s = <<>> THEN TRUE
    ELSE IF Head(s) = Head(t) THEN StrLess(Tail(s), Tail(t))
    ELSE Rank(Head(s)) < Rank(Head(t))

\* sorted(list(S)) of a set of str
RECURSIVE Sorted(_)
Sorted(S) ==
    IF S = {} THEN <<>>
    ELSE LET m == CHOOSE x \in S : \A y \in S \ {x} : StrLess(x, y)
         IN  <<m>> \o Sorted(S \ {m})

\* the message both address functions return, in a list, when the file is absent
ErrorMsg ==
    <<"E", "r", "r", "o", "r", ":", " ", "T", "h", "e", " ", "m", "a", "i", "n", " ",
      "d", "a", "t", "a", " ", "f", "i", "l", "e", " ", "w", "a", "s", " ", "n", "o",
      "t", " ", "f", "o", "u", "n", "d", " ", "a", "t", " ", "t", "h", "e", " ", "s",
      "p", "e", "c", "i", "f", "i", "e", "d", " ", "p", "a", "t", "h", ".">>

Strings(n) == UNION {[1..k -> Alphabet] : k \in 0..n}

---------------------------------------------------------------------------
(* The address file data/geojson/hausumringe_mit_adressenV3.geojson *)

\* an address entry: adr.get("str") is None when the key is absent
NoStr == [present |-> FALSE, str |-> <<>>]

Entry(s) == [present |-> TRUE, str |-> s]

StreetVals == Strings(MaxStrLen) \cup {ErrorMsg}

Entries == {Entry(s) : s \in StreetVals} \cup {NoStr}

\* gebaeude.oi; the empty string stands for every falsy value (None, "", no gebaeude)
NoId == <<>>

OiVals == {NoId, <<"x">>, <<"y">>}

\* the "adressen" member of a feature: a list of entries, absent, or a string that
\* is not the JSON text of a list
AdrList(items) == [kind |-> "list", items |-> items]

AdrMissing == [kind |-> "missing", items |-> <<>>]

AdrText == [kind |-> "text", items |-> <<>>]

\* the "adressen" members with k entries drawn from E; Z are those without entries
Cells(k, E, Z) == IF k = 0 THEN Z ELSE {AdrList(l) : l \in [1..k -> E]}

FeaturesWith(k, E, Z) == {[adressen |-> c, oi |-> o] : c \in Cells(k, E, Z), o \in OiVals}

Min(a, b) == IF a < b THEN a ELSE b

\* the feature lists of n features holding at most e address entries in all
RECURSIVE Colls(_, _, _, _)
Colls(n, e, E, Z) ==
    IF n = 0 THEN {<<>>}
    ELSE UNION {{Append(c, f) : c \in Colls(n - 1, e - k, E, Z), f \in FeaturesWith(k, E, Z)} :
                   k \in 0..Min(e, MaxAddr)}

\* the feature lists of at most nmax features
Collections(nmax) ==
    UNION {Colls(n, MaxEntries, Entries, {AdrList(<<>>), AdrMissing}) : n \in 0..nmax}

FileAbsent == [kind |-> "absent", features |-> <<>>]

\* a file that exists and is not JSON: json.load raises
FileCorrupt == [kind |-> "corrupt", features |-> <<>>]

FileOk(fs) == [kind |-> "ok", features |-> fs]

Files(nmax) == {FileAbsent, FileCorrupt} \cup {FileOk(fs) : fs \in Collections(nmax)}

Queries == Strings(MaxStrLen) \cup {ErrorMsg}

---------------------------------------------------------------------------
(* Outcomes of a tool call *)

Return(v) == [outcome |-> "return", value |-> v, exc |-> ""]

\* an exception that leaves the function
Raise(e) == [outcome |-> "raise", value |-> <<>>, exc |-> e]

\* selected_ids before the loop, with the two bookkeeping fields of SelectLoop
NoSelection == [ids |-> <<>>, from |-> <<>>, hit |-> {}]

---------------------------------------------------------------------------
(* get_all_street_names *)

\* the truthiness test "if street_val:" on adr.get("str")
Truthy(adr) == adr.present /\ adr.str # <<>>

AdrItems(feature) == feature.adressen.items

\* line 214 without .strip()
StreetNameSet_NoStrip(features) ==
    {AdrItems(features[i])[j].str :
        <<i, j>> \in {p \in (1..Len(features)) \X (1..MaxAddr + 1) :
                        /\ p[2] <= Len(AdrItems(features[p[1]]))
                        /\ Truthy(AdrItems(features[p[1]])[p[2]])}}

\* the set street_names after the two loops
StreetNameSet(features) ==
    {Strip(AdrItems(features[i])[j].str) :
        <<i, j>> \in {p \in (1..Len(features)) \X (1..MaxAddr + 1) :
                        /\ p[2] <= Len(AdrItems(features[p[1]]))
                        /\ Truthy(AdrItems(features[p[1]])[p[2]])}}

\* line 207 returning an empty list
get_all_street_names_EmptyOnAbsent(f) ==
    CASE f.kind = "absent"  -> Return(<<>>)
      [] f.kind = "corrupt" -> Raise("JSONDecodeError")
      [] f.kind = "ok" /\ \E i \in 1..Len(f.features) : f.features[i].adressen.kind = "text"
                            -> Raise("AttributeError")
      [] OTHER              -> Return(Sorted(StreetNameSet(f.features)))

get_all_street_names(f) ==
    CASE f.kind = "absent"  -> Return(<<ErrorMsg>>)
      [] f.kind = "corrupt" -> Raise("JSONDecodeError")
      [] f.kind = "ok" /\ \E i \in 1..Len(f.features) : f.features[i].adressen.kind = "text"
                            -> Raise("AttributeError")
      [] OTHER              -> Return(Sorted(StreetNameSet(f.features)))

---------------------------------------------------------------------------
(* get_building_ids_for_street *)

\* t occurs in s
Contains(s, t) == \E a \in 0..Len(s) - Len(t) : SubSeq(s, a + 1, a + Len(t)) = t

\* line 243 with a containment test in place of the membership test
AddrMatches_Substring(adr, street_set) ==
    Truthy(adr) /\ \E q \in street_set : Contains(Lower(Strip(adr.str)), q)

\* line 243 without .lower() on the stored street
AddrMatches_NoLower(adr, street_set) ==
    Truthy(adr) /\ Strip(adr.str) \in street_set

\* the condition of line 243 on one address entry
AddrMatches(adr, street_set) ==
    Truthy(adr) /\ Lower(Strip(adr.str)) \in street_set

\* the inner loop without the break of line 247
RECURSIVE Appends_NoBreak(_, _, _)
Appends_NoBreak(items, j, street_set) ==
    IF j > Len(items) THEN 0
    ELSE (IF Truthy(items[j]) /\ Lower(Strip(items[j].str)) \in street_set THEN 1 ELSE 0)
         + Appends_NoBreak(items, j + 1, street_set)

\* the inner loop from entry j on: how many times it reaches line 244; the break of
\* line 247 ends it at the first entry that matches
RECURSIVE Appends(_, _, _)
Appends(items, j, street_set) ==
    IF j > Len(items) THEN 0
    ELSE IF AddrMatches(items[j], street_set) THEN 1
    ELSE Appends(items, j + 1, street_set)

\* variant: list.insert(0, v) in place of append
RECURSIVE PrependTimes(_, _, _)
PrependTimes(seq, v, n) == IF n = 0 THEN seq ELSE PrependTimes(<<v>> \o seq, v, n - 1)

\* seq with v appended n times
RECURSIVE AppendTimes(_, _, _)
AppendTimes(seq, v, n) == IF n = 0 THEN seq ELSE AppendTimes(Append(seq, v), v, n - 1)

\* the outer loop from feature i on; acc.ids is selected_ids, acc.from the feature
\* each identifier was appended for, acc.hit the features with a matching entry
RECURSIVE SelectLoop(_, _, _, _)
SelectLoop(features, i, street_set, acc) ==
    IF i > Len(features) THEN acc
    ELSE LET feature == features[i]
             n == Appends(AdrItems(feature), 1, street_set)
             oi == feature.oi
         IN  IF n = 0 THEN SelectLoop(features, i + 1, street_set, acc)
             ELSE IF oi # NoId
                  THEN SelectLoop(features, i + 1, street_set,
                                  [ids  |-> AppendTimes(acc.ids, oi, n),
                                   from |-> AppendTimes(acc.from, i, n),
                                   hit  |-> acc.hit \cup {i}])
                  ELSE SelectLoop(features, i + 1, street_set,
                                  [acc EXCEPT !.hit = acc.hit \cup {i}])

Selection(f, street_name) ==
    SelectLoop(f.features, 1, {Lower(Strip(street_name))}, NoSelection)

\* iterating a non-empty string yields its characters, and adr.get raises on the first
HasTextCell(features) == \E i \in 1..Len(features) : features[i].adressen.kind = "text"

\* an empty selection reported with the message of the absent file
get_building_ids_for_street_ErrorOnEmpty(f, street_name) ==
    CASE f.kind = "absent"  -> Return(<<ErrorMsg>>)
      [] f.kind = "corrupt" -> Raise("JSONDecodeError")
      [] f.kind = "ok" /\ HasTextCell(f.features) -> Raise("AttributeError")
      [] OTHER              ->
            LET selected_ids == SelectLoop(f.features, 1, {Lower(Strip(street_name))},
                                           NoSelection).ids
            IN  Return(IF selected_ids = <<>> THEN <<ErrorMsg>> ELSE selected_ids)

get_building_ids_for_street(f, street_name) ==
    CASE f.kind = "absent"  -> Return(<<ErrorMsg>>)
      [] f.kind = "corrupt" -> Raise("JSONDecodeError")
      [] f.kind = "ok" /\ HasTextCell(f.features) -> Raise("AttributeError")
      [] OTHER              -> Return(Selection(f, street_name).ids)

---------------------------------------------------------------------------
(* The street filter of the two analysis operations (lines 294-304, 687-697).  *)
(* The building table has one row per feature, in file order, labelled from 0. *)

\* line 300 / 693: the test on one decoded address; addr.get('str', '')
FilterMatches(addr, street_name) ==
    LET street_val == IF addr.present THEN addr.str ELSE <<>>
    IN  street_val # <<>> /\ Lower(street_val) = Lower(street_name)

\* the inner loop from address j on: how often the row is appended; the break of
\* line 302 / 695 ends it at the first address that matches
RECURSIVE FilterAppends(_, _, _)
FilterAppends(items, j, street_name) ==
    IF j > Len(items) THEN 0
    ELSE IF FilterMatches(items[j], street_name) THEN 1
    ELSE FilterAppends(items, j + 1, street_name)

\* the table has an 'adressen' column when some feature carries the property
HasAdressenColumn(features) ==
    \E i \in 1..Len(features) : features[i].adressen.kind # "missing"

\* json.loads(None) raises TypeError, which the inner except does not catch: a row
\* without the property in a table that has the column
FilterRaises(features) ==
    /\ HasAdressenColumn(features)
    /\ \E i \in 1..Len(features) : features[i].adressen.kind = "missing"

\* the outer loop from row i on; acc holds the positions of the rows appended. A row
\* whose cell is not JSON (JSONDecodeError) or a table without the column (KeyError)
\* takes the continue of line 304 / 697
RECURSIVE FilterLoop(_, _, _, _)
FilterLoop(features, i, street_name, acc) ==
    IF i > Len(features) THEN acc
    ELSE IF features[i].adressen.kind # "list"
         THEN FilterLoop(features, i + 1, street_name, acc)
         ELSE FilterLoop(features, i + 1, street_name,
                         AppendTimes(acc, i, FilterAppends(AdrItems(features[i]), 1, street_name)))

street_buildings(features, street_name) == FilterLoop(features, 1, street_name, <<>>)

---------------------------------------------------------------------------
(* The result aggregator of run_comprehensive_hp_analysis (lines 334-382, 608) *)

\* a table cell or float: np.nan / None, or a value
NaN == [known |-> FALSE, v |-> 0]

Num(x) == [known |-> TRUE, v |-> x]

\* a cell holding an identifier
NullKey == [null |-> TRUE, v |-> <<>>]

Key(k) == [null |-> FALSE, v |-> k]

\* a column of a row as Series.get sees it: the label is in the index or not
NoColumn == [col |-> FALSE, cell |-> NullKey]

Column(cell) == [col |-> TRUE, cell |-> cell]

Digits == <<"0", "1", "2", "3", "4", "5", "6", "7", "8", "9">>

\* str(idx) of a row label
StrOf(idx) == <<Digits[idx + 1]>>

\* the 'gebaeude' column exists when some feature of the file carries the property;
\* the cell of a feature without it is null
GebaeudeColumn(features, pos) ==
    IF \E i \in 1..Len(features) : features[i].oi # NoId
    THEN Column(IF features[pos].oi = NoId THEN NullKey ELSE Key(features[pos].oi))
    ELSE NoColumn

\* line 337 with the two fields in the other order
LookupKey_IdFirst(gebaeude, id, idx) ==
    IF id.col THEN id.cell
    ELSE IF gebaeude.col THEN gebaeude.cell
    ELSE Key(StrOf(idx))

\* line 337: building.get('gebaeude', building.get('id', str(idx)))
LookupKey(gebaeude, id, idx) ==
    IF gebaeude.col THEN gebaeude.cell
    ELSE IF id.col THEN id.cell
    ELSE Key(StrOf(idx))

\* the entry the power flow collaborator holds for a building identifier
EntryOf(k) ==
    IF k \in {<<"x">>, <<"k">>, <<"0">>}
    THEN [max_loading |-> 80, min_voltage |-> 950]
    ELSE [max_loading |-> 95, min_voltage |-> 1020]

\* line 338: building_id in power_metrics
InMetrics(building_id, metric_keys) == ~building_id.null /\ building_id.v \in metric_keys

\* lines 339-340: the fields of a row whose identifier is in power_metrics
MetricsFound(building_id) ==
    [max_trafo_loading |-> Num(EntryOf(building_id.v).max_loading),
     min_voltage_pu    |-> Num(EntryOf(building_id.v).min_voltage)]

\* lines 342-343 with the defaults of the statistics in place of np.nan
MetricsMissing_Defaults == [max_trafo_loading |-> Num(0), min_voltage_pu |-> Num(1000)]

\* lines 342-343: the fields of a row whose identifier is not in power_metrics
MetricsMissing == [max_trafo_loading |-> NaN, min_voltage_pu |-> NaN]

\* one iteration of the loop of lines 336-343 for the row at position pos
MergedRow(features, pos, c) ==
    LET gebaeude == GebaeudeColumn(features, pos)
        id == IF c.hasId THEN Column(c.id[pos]) ELSE NoColumn
        building_id == LookupKey(gebaeude, id, pos - 1)
        m == IF InMetrics(building_id, c.metric_keys)
             THEN MetricsFound(building_id) ELSE MetricsMissing
    IN  [pos |-> pos, gebaeude |-> gebaeude, id |-> id, building_id |-> building_id,
         max_trafo_loading |-> m.max_trafo_loading,
         min_voltage_pu |-> m.min_voltage_pu,
         dist_to_line |-> c.dist[pos].dist_to_line,
         dist_to_transformer |-> c.dist[pos].dist_to_transformer,
         dist_to_substation |-> c.dist[pos].dist_to_substation]

MergedRows(features, sel, c) == [k \in 1..Len(sel) |-> MergedRow(features, sel[k], c)]

\* Series.isna().all()
AllNaN(col) == \A k \in 1..Len(col) : ~col[k].known

Known(col) == {k \in 1..Len(col) : col[k].known}

\* Series.max() and Series.min(): NaN is skipped
MaxOf(col) == CHOOSE m \in {col[k].v : k \in Known(col)} : \A k \in Known(col) : col[k].v <= m

MinOf(col) == CHOOSE m \in {col[k].v : k \in Known(col)} : \A k \in Known(col) : m <= col[k].v

RECURSIVE SumOf(_, _)
SumOf(col, k) ==
    IF k > Len(col) THEN 0
    ELSE (IF col[k].known THEN col[k].v ELSE 0) + SumOf(col, k + 1)

\* a reported statistic: the fraction num/den, or the marker for unknown
Stat(num, den) == [known |-> TRUE, num |-> num, den |-> den]

UnknownStat == [known |-> FALSE, num |-> 0, den |-> 1]

\* the defaults of lines 377-380 and 608; voltages are in thousandths of 1 pu
DefaultMaxTrafoLoading == 0

DefaultMinVoltagePU == 1000

DefaultAvgDist == 0

\* Series.mean() with the NaN rows counted as 0
MeanOf_CountAll(col) == Stat(SumOf(col, 1), Len(col))

\* Series.mean(): NaN is skipped
MeanOf(col) == Stat(SumOf(col, 1), Cardinality(Known(col)))

ColumnOf(rows, field) == [k \in 1..Len(rows) |-> rows[k][field]]

\* line 377
MaxTrafoLoadingStat(col) ==
    IF ~AllNaN(col) THEN Stat(MaxOf(col), 1) ELSE Stat(DefaultMaxTrafoLoading, 1)

\* line 378
MinVoltagePUStat(col) ==
    IF ~AllNaN(col) THEN Stat(MinOf(col), 1) ELSE Stat(DefaultMinVoltagePU, 1)

\* lines 379, 380 and 608
AvgDistStat(col) == IF ~AllNaN(col) THEN MeanOf(col) ELSE Stat(DefaultAvgDist, 1)

\* the dict stats of lines 376-382, with avg_dist_to_substation of line 608
StatsOf(rows) ==
    [MaxTrafoLoading    |-> MaxTrafoLoadingStat(ColumnOf(rows, "max_trafo_loading")),
     MinVoltagePU       |-> MinVoltagePUStat(ColumnOf(rows, "min_voltage_pu")),
     AvgDistLine        |-> AvgDistStat(ColumnOf(rows, "dist_to_line")),
     AvgDistTransformer |-> AvgDistStat(ColumnOf(rows, "dist_to_transformer")),
     AvgDistSubstation  |-> AvgDistStat(ColumnOf(rows, "dist_to_substation")),
     BuildingsCount     |-> Len(rows)]

---------------------------------------------------------------------------
(* The collaborator street_final_copy_3, as far as the tools see it *)

\* the identifiers the collaborator may key power_metrics with
KeyUniverse == {<<"x">>, <<"y">>, <<"k">>} \cup {StrOf(i) : i \in 0..MaxFeatures - 1}

IdCells == {NullKey, Key(<<"k">>)}

\* what compute_proximity leaves in the three distance columns of a row (metres)
DistProfiles ==
    {[dist_to_line |-> NaN, dist_to_transformer |-> NaN, dist_to_substation |-> NaN],
     [dist_to_line |-> Num(10), dist_to_transformer |-> Num(20), dist_to_substation |-> NaN],
     [dist_to_line |-> Num(40), dist_to_transformer |-> NaN, dist_to_substation |-> Num(30)]}

\* one behaviour of the collaborator during a call: whether its modules import,
\* whether the table it loads has an 'id' column and the cells of that column, the
\* keys of the power_metrics it computes, the distances it computes, the step of
\* the call in which a collaborator or library call raises (raises), and the files
\* the network builder leaves next to its map (writes)
IdColumns ==
    {[hasId |-> FALSE, id |-> [i \in 1..MaxFeatures |-> NullKey]]} \cup
    {[hasId |-> TRUE, id |-> f] : f \in [1..MaxFeatures -> IdCells]}

Collabs ==
    {[modules |-> m, hasId |-> ic.hasId, id |-> ic.id, metric_keys |-> mk, dist |-> d,
      raises |-> "none", writes |-> "none"] :
        m \in BOOLEAN, ic \in IdColumns, mk \in SUBSET KeyUniverse,
        d \in [1..MaxFeatures -> DistProfiles]}

\* the modules import, the table has no 'id' column, power_metrics is empty
NominalCollab ==
    [modules |-> TRUE, hasId |-> FALSE, id |-> [i \in 1..MaxFeatures |-> NullKey],
     metric_keys |-> {},
     dist |-> [i \in 1..MaxFeatures |->
                 [dist_to_line |-> Num(10), dist_to_transformer |-> Num(20),
                  dist_to_substation |-> NaN]],
     raises |-> "none", writes |-> "none"]

---------------------------------------------------------------------------
(* run_comprehensive_hp_analysis and run_comprehensive_dh_analysis *)

NoStats == StatsOf(<<>>)

\* the string a call returns: kind "error" is a string that starts with "Error",
\* "nomatch" is "No buildings found for street: ...", "summary" the report
Report(kind, detail, sel, rows, stats, metric_keys) ==
    [kind |-> kind, detail |-> detail, sel |-> sel, rows |-> rows, stats |-> stats,
     metric_keys |-> metric_keys]

NoReport == Report("none", "", <<>>, <<>>, NoStats, {})

ErrorReport(detail) == Report("error", detail, <<>>, <<>>, NoStats, {})

\* variant: the map is drawn before the metrics are merged onto the buildings
HPSteps_VisualizeBeforeMerge ==
    <<"import", "mkdir", "load_buildings", "filter", "load_power_infrastructure",
      "read_streets", "compute_proximity", "compute_service_lines_street_following",
      "compute_power_feasibility", "visualize", "merge", "output_results_table",
      "chart_transformer", "chart_line", "write_dashboard">>

\* the steps of run_comprehensive_hp_analysis in program order (lines 269-604)
HPSteps ==
    <<"import", "mkdir", "load_buildings", "filter", "load_power_infrastructure",
      "read_streets", "compute_proximity", "compute_service_lines_street_following",
      "compute_power_feasibility", "merge", "visualize", "output_results_table",
      "chart_transformer", "chart_line", "write_dashboard">>

\* variant: the filtered buildings are saved before the selection is looked at
DHSteps_SaveBeforeFilter ==
    <<"import", "mkdir", "read_file", "to_file", "filter", "network", "read_stats",
      "read_simulation", "write_dashboard">>

\* the steps of run_comprehensive_dh_analysis in program order (lines 666-976)
DHSteps ==
    <<"import", "mkdir", "read_file", "filter", "to_file", "network", "read_stats",
      "read_simulation", "write_dashboard">>

\* the steps of a call that are calls into a collaborator or a library
Raising(steps) == {steps[i] : i \in 1..Len(steps)} \ {"filter", "merge"}

Pos(steps, step) == CHOOSE i \in 1..Len(steps) : steps[i] = step

\* variant: the modules are looked at where the first of them is used, after the
\* output directory has been created
HPEnd_CheckAtFirstUse(f, street_name, c) ==
    IF c.raises = "import" THEN [at |-> "import", how |-> "raise", detail |-> "import"]
    ELSE IF c.raises = "mkdir" THEN [at |-> "mkdir", how |-> "raise", detail |-> "mkdir"]
    ELSE IF ~c.modules
         THEN [at |-> "load_buildings", how |-> "unavailable",
               detail |-> "modules not available"]
    ELSE IF f.kind # "ok" \/ c.raises = "load_buildings"
         THEN [at |-> "load_buildings", how |-> "raise",
               detail |-> "exception in load_buildings"]
    ELSE IF FilterRaises(f.features)
         THEN [at |-> "filter", how |-> "raise", detail |-> "TypeError in json.loads"]
    ELSE IF Len(street_buildings(f.features, street_name)) = 0
         THEN [at |-> "filter", how |-> "nomatch", detail |-> ""]
    ELSE IF c.raises \in Raising(HPSteps)
         THEN [at |-> c.raises, how |-> "raise", detail |-> c.raises]
    ELSE [at |-> "write_dashboard", how |-> "summary", detail |-> ""]

\* where a run_comprehensive_hp_analysis call ends and how: the import gives no
\* modules ("unavailable"), a step raises into the except of line 647 ("raise"),
\* the return of line 307 ("nomatch") or the return of line 645 ("summary")
HPEnd(f, street_name, c) ==
    IF c.raises = "import" THEN [at |-> "import", how |-> "raise", detail |-> "import"]
    ELSE IF ~c.modules
         THEN [at |-> "import", how |-> "unavailable", detail |-> "modules not available"]
    ELSE IF c.raises = "mkdir" THEN [at |-> "mkdir", how |-> "raise", detail |-> "mkdir"]
    ELSE IF f.kind # "ok" \/ c.raises = "load_buildings"
         THEN [at |-> "load_buildings", how |-> "raise",
               detail |-> "exception in load_buildings"]
    ELSE IF FilterRaises(f.features)
         THEN [at |-> "filter", how |-> "raise", detail |-> "TypeError in json.loads"]
    ELSE IF Len(street_buildings(f.features, street_name)) = 0
         THEN [at |-> "filter", how |-> "nomatch", detail |-> ""]
    ELSE IF c.raises \in Raising(HPSteps)
         THEN [at |-> c.raises, how |-> "raise", detail |-> c.raises]
    ELSE [at |-> "write_dashboard", how |-> "summary", detail |-> ""]

run_comprehensive_hp_analysis(f, street_name, c) ==
    LET end == HPEnd(f, street_name, c)
        sel == street_buildings(f.features, street_name)
        rows == MergedRows(f.features, sel, c)
    IN  CASE end.how \in {"raise", "unavailable"} -> ErrorReport(end.detail)
          [] end.how = "nomatch" -> Report("nomatch", "", sel, <<>>, NoStats, {})
          [] OTHER -> Report("summary", "", sel, rows, StatsOf(rows), c.metric_keys)

\* the steps a call executes, the one it ends in included
StepsTo(steps, at) == SubSeq(steps, 1, Pos(steps, at))

\* the steps of a call that ran to their end
Completed(steps, end) ==
    IF end.how \in {"raise", "unavailable"}
    THEN SubSeq(steps, 1, Pos(steps, end.at) - 1)
    ELSE StepsTo(steps, end.at)

\* lines 34-64: STREET_FINAL_AVAILABLE after the import of a call; an exception
\* other than ImportError leaves the assignments of lines 48 and 63 out
FlagAfter(flag, c) ==
    IF c.raises = "import" THEN flag ELSE c.modules

---------------------------------------------------------------------------
(* The directory results_test *)

\* str.replace(' ', '_')
Replace(s) == [i \in 1..Len(s) |-> IF s[i] = " " THEN "_" ELSE s[i]]

\* what is known of a file's content: the members of a statistics or simulation
\* file that the reports show (km in hundredths, bar in millionths)
NoContent == [num_buildings |-> 0, total_main_length_km |-> 0, pressure_drop_bar |-> 0]

\* a file name base + key + ext, key being the part made from the street name
FileName(base, key, ext) == [base |-> base, key |-> key, ext |-> ext]

\* the invocation that wrote a file
By(op, street_name, scenario) == [op |-> op, street_name |-> street_name, scenario |-> scenario]

EmptyResults == [dirs |-> {}, files |-> {}]

MkDir(rt, dir) == [rt EXCEPT !.dirs = @ \cup {dir}]

\* variant: a file that is there is left as it is
WriteFile_KeepExisting(rt, dir, name, by, content) ==
    IF \E f \in rt.files : f.dir = dir /\ f.name = name THEN rt
    ELSE [rt EXCEPT !.files = @ \cup
                       {[dir |-> dir, name |-> name, by |-> by, content |-> content]}]

\* open(path, 'w') and write: the file of that path is replaced
WriteFile(rt, dir, name, by, content) ==
    [rt EXCEPT !.files = {f \in @ : ~(f.dir = dir /\ f.name = name)} \cup
                         {[dir |-> dir, name |-> name, by |-> by, content |-> content]}]

\* os.path.exists(path)
Exists(rt, dir, name) == \E f \in rt.files : f.dir = dir /\ f.name = name

\* json.load of the file at path
Load(rt, dir, name) == (CHOOSE f \in rt.files : f.dir = dir /\ f.name = name).content

DefaultScenario == "winter_werktag_abendspitze"

\* the files run_comprehensive_hp_analysis and its collaborator write, by step
HPWrites ==
    [visualize            |-> {FileName("hp_feasibility_map", <<>>, ".html")},
     output_results_table |-> {FileName("building_proximity_table", <<>>, ".csv")},
     chart_transformer    |-> {FileName("dist_to_transformer_hist", <<>>, ".png")},
     chart_line           |-> {FileName("dist_to_line_hist", <<>>, ".png")},
     write_dashboard      |-> {FileName("hp_feasibility_dashboard", <<>>, ".html")}]

\* rt after the steps done[i..] of a run_comprehensive_hp_analysis call
RECURSIVE HPApply(_, _, _, _)
HPApply(rt, done, i, by) ==
    IF i > Len(done) THEN rt
    ELSE IF done[i] = "mkdir" THEN HPApply(MkDir(rt, "hp_analysis"), done, i + 1, by)
    ELSE IF done[i] \in DOMAIN HPWrites
         THEN HPApply(WriteFile(rt, "hp_analysis",
                                CHOOSE n \in HPWrites[done[i]] : TRUE, by, NoContent),
                      done, i + 1, by)
    ELSE HPApply(rt, done, i + 1, by)

\* results_test after a run_comprehensive_hp_analysis call
hp_results_test(rt, f, street_name, scenario, c) ==
    HPApply(rt, Completed(HPSteps, HPEnd(f, street_name, c)), 1,
            By("run_comprehensive_hp_analysis", street_name, scenario))

---------------------------------------------------------------------------
(* run_comprehensive_dh_analysis *)

\* lines 726 and 743: the two files the call reads when they exist
StatsFile(street_name) ==
    FileName("dual_network_stats_dh_analysis_", Replace(street_name), ".json")

SimFile(street_name) ==
    FileName("pandapipes_simulation_results_dh_analysis_", Replace(street_name), ".json")

\* what the network builder computes when it leaves the two files
BuiltStats(n) == [num_buildings |-> n, total_main_length_km |-> 250, pressure_drop_bar |-> 0]

BuiltSimulation == [num_buildings |-> 0, total_main_length_km |-> 0, pressure_drop_bar |-> 50]

\* lines 731-740: network_stats when there is no statistics file
DefaultStats(n) == [num_buildings |-> n, total_main_length_km |-> 184, pressure_drop_bar |-> 0]

\* lines 748-753: simulation_results when there is no simulation file
DefaultSimulation == [num_buildings |-> 0, total_main_length_km |-> 0, pressure_drop_bar |-> 25]

\* results_test after line 675
DHAfterMkDir(rt) == MkDir(rt, "dh_analysis")

\* results_test after line 705
DHAfterToFile(rt, street_name, by) ==
    WriteFile(DHAfterMkDir(rt), "dh_analysis",
              FileName("buildings_", Replace(street_name), ".geojson"), by, NoContent)

\* results_test after the try of lines 708-723: the network builder writes its map
\* and, as c.writes says, its statistics and simulation files, unless it raises
DHAfterNetwork(rt, street_name, n, c, by) ==
    LET rt0 == DHAfterToFile(rt, street_name, by)
        rt1 == WriteFile(rt0, "dh_analysis",
                         FileName("dh_network_map_", street_name, ".html"), by, NoContent)
        rt2 == IF c.writes \in {"stats", "stats_simulation"}
               THEN WriteFile(rt1, "dh_analysis", StatsFile(street_name), by, BuiltStats(n))
               ELSE rt1
        rt3 == IF c.writes = "stats_simulation"
               THEN WriteFile(rt2, "dh_analysis", SimFile(street_name), by, BuiltSimulation)
               ELSE rt2
    IN  IF c.raises = "network" THEN rt0 ELSE rt3

\* variant: the call goes on with an empty selection
NoBuildings_Never(sel) == FALSE

\* line 699: len(street_buildings) == 0
NoBuildings(sel) == Len(sel) = 0

\* where a run_comprehensive_dh_analysis call ends and how; the except of line 721
\* keeps a failure of the network builder from ending the call. 1.84 / len(...) is
\* evaluated at line 739 when there is no statistics file, and at lines 918 and 994
\* as the default of network_stats.get, whether the key is there or not; a zero
\* length raises ZeroDivisionError
DHEnd(f, street_name, c, rt) ==
    LET sel == street_buildings(f.features, street_name)
        by == By("run_comprehensive_dh_analysis", street_name, "")
        seen == DHAfterNetwork(rt, street_name, Len(sel), c, by)
    IN  IF c.raises = "import" THEN [at |-> "import", how |-> "raise", detail |-> "import"]
        ELSE IF ~c.modules
             THEN [at |-> "import", how |-> "unavailable", detail |-> "modules not available"]
        ELSE IF c.raises = "mkdir" THEN [at |-> "mkdir", how |-> "raise", detail |-> "mkdir"]
        ELSE IF f.kind # "ok" \/ c.raises = "read_file"
             THEN [at |-> "read_file", how |-> "raise",
                   detail |-> "exception in gpd.read_file"]
        ELSE IF FilterRaises(f.features)
             THEN [at |-> "filter", how |-> "raise", detail |-> "TypeError in json.loads"]
        ELSE IF NoBuildings(sel) THEN [at |-> "filter", how |-> "nomatch", detail |-> ""]
        ELSE IF c.raises = "to_file"
             THEN [at |-> "to_file", how |-> "raise", detail |-> "to_file"]
        ELSE IF c.raises = "read_stats" /\ Exists(seen, "dh_analysis", StatsFile(street_name))
             THEN [at |-> "read_stats", how |-> "raise", detail |-> "read_stats"]
        ELSE IF Len(sel) = 0 /\ ~Exists(seen, "dh_analysis", StatsFile(street_name))
             THEN [at |-> "read_stats", how |-> "raise", detail |-> "ZeroDivisionError"]
        ELSE IF c.raises = "read_simulation"
                /\ Exists(seen, "dh_analysis", SimFile(street_name))
             THEN [at |-> "read_simulation", how |-> "raise", detail |-> "read_simulation"]
        ELSE IF Len(sel) = 0
             THEN [at |-> "write_dashboard", how |-> "raise", detail |-> "ZeroDivisionError"]
        ELSE IF c.raises = "write_dashboard"
             THEN [at |-> "write_dashboard", how |-> "raise", detail |-> "write_dashboard"]
        ELSE [at |-> "write_dashboard", how |-> "summary", detail |-> ""]

\* the values of len(street_buildings) the call divides 1.84 by, in the order of
\* the divisions: line 739 when the call gets there and finds no statistics file,
\* line 918 when it builds the dashboard, line 994 when it builds the summary
DensityDivisors(f, street_name, c, rt) ==
    LET end == DHEnd(f, street_name, c, rt)
        ran == StepsTo(DHSteps, end.at)
        reached(step) == \E i \in 1..Len(ran) : ran[i] = step
        n == Len(street_buildings(f.features, street_name))
        by == By("run_comprehensive_dh_analysis", street_name, "")
        seen == DHAfterNetwork(rt, street_name, n, c, by)
    IN  (IF reached("read_stats") /\ ~Exists(seen, "dh_analysis", StatsFile(street_name))
         THEN <<n>> ELSE <<>>)
        \o (IF reached("write_dashboard") THEN <<n>> ELSE <<>>)
        \o (IF end.how = "summary" THEN <<n>> ELSE <<>>)

\* lines 725-753: network_stats, simulation_results and map_path of the report
DHStats(rt, street_name, n, c) ==
    [network_stats |->
        IF Exists(rt, "dh_analysis", StatsFile(street_name))
        THEN Load(rt, "dh_analysis", StatsFile(street_name)) ELSE DefaultStats(n),
     simulation_results |->
        IF Exists(rt, "dh_analysis", SimFile(street_name))
        THEN Load(rt, "dh_analysis", SimFile(street_name)) ELSE DefaultSimulation,
     map_path |-> c.raises # "network"]

run_comprehensive_dh_analysis(f, street_name, c, rt) ==
    LET end == DHEnd(f, street_name, c, rt)
        sel == street_buildings(f.features, street_name)
        by == By("run_comprehensive_dh_analysis", street_name, "")
        seen == DHAfterNetwork(rt, street_name, Len(sel), c, by)
    IN  CASE end.how \in {"raise", "unavailable"} -> ErrorReport(end.detail)
          [] end.how = "nomatch" -> Report("nomatch", "", sel, <<>>, NoStats, {})
          [] OTHER -> Report("summary", "", sel, <<>>,
                             DHStats(seen, street_name, Len(sel), c), {})

\* results_test after a run_comprehensive_dh_analysis call
dh_results_test(rt, f, street_name, c) ==
    LET end == DHEnd(f, street_name, c, rt)
        done == Completed(DHSteps, end)
        Did(step) == \E i \in 1..Len(done) : done[i] = step
        sel == street_buildings(f.features, street_name)
        by == By("run_comprehensive_dh_analysis", street_name, "")
        seen == DHAfterNetwork(rt, street_name, Len(sel), c, by)
    IN  IF Did("write_dashboard")
        THEN WriteFile(seen, "dh_analysis",
                       FileName("dh_dashboard_", Replace(street_name), ".html"), by, NoContent)
        ELSE IF Did("network") THEN seen
        ELSE IF Did("to_file") THEN DHAfterToFile(rt, street_name, by)
        ELSE IF Did("mkdir") THEN DHAfterMkDir(rt)
        ELSE rt

---------------------------------------------------------------------------
(* The strings and documents the analysis operations produce *)

RECURSIVE Pow10(_)
Pow10(d) == IF d = 0 THEN 1 ELSE 10 * Pow10(d - 1)

\* n / d rounded to an integer, ties to even, as float formatting rounds
RoundHalfEven(n, d) ==
    LET q == n \div d
        r == n % d
    IN  IF 2 * r < d THEN q
        ELSE IF 2 * r > d THEN q + 1
        ELSE IF q % 2 = 0 THEN q ELSE q + 1

\* format(num / den, '.<d>f') of a number >= 0: the integer part and the d decimals
Fmt(num, den, d) ==
    LET scaled == RoundHalfEven(num * Pow10(d), den)
    IN  [whole |-> scaled \div Pow10(d),
         frac  |-> [i \in 1..d |-> (scaled \div Pow10(d - i)) % 10]]

\* one interpolated value of a document: what it measures, and its text
Field(label, unit, text) == [label |-> label, unit |-> unit, text |-> text]

\* variant: the template shows the day of the rendering in a second place
HPDashboard_Stamped(street_name, scenario, stats, day) ==
    [street_name |-> street_name, scenario |-> scenario,
     analysis_date |-> day,
     map_src |-> FileName("hp_feasibility_map", <<>>, ".html"),
     buildings_count |-> stats.BuildingsCount,
     fields |->
        <<Field("MaxTrafoLoading", "percent",
                Fmt(stats.MaxTrafoLoading.num, stats.MaxTrafoLoading.den, 2)),
          Field("Generated", "day", Fmt(day, 1, 0))>>]

\* lines 409-601: dashboard_html, as the values interpolated into the template
HPDashboard(street_name, scenario, stats, day) ==
    [street_name |-> street_name, scenario |-> scenario,
     analysis_date |-> day,
     map_src |-> FileName("hp_feasibility_map", <<>>, ".html"),
     buildings_count |-> stats.BuildingsCount,
     fields |->
        <<Field("MaxTrafoLoading", "percent",
                Fmt(stats.MaxTrafoLoading.num, stats.MaxTrafoLoading.den, 2)),
          Field("MinVoltagePU", "pu",
                Fmt(stats.MinVoltagePU.num, stats.MinVoltagePU.den * 1000, 3)),
          Field("AvgDistLine", "m", Fmt(stats.AvgDistLine.num, stats.AvgDistLine.den, 0)),
          Field("AvgDistTransformer", "m",
                Fmt(stats.AvgDistTransformer.num, stats.AvgDistTransformer.den, 0)),
          Field("MaxTrafoLoading", "percent",
                Fmt(stats.MaxTrafoLoading.num, stats.MaxTrafoLoading.den, 2)),
          Field("AvgDistTransformer", "m",
                Fmt(stats.AvgDistTransformer.num, stats.AvgDistTransformer.den, 0)),
          Field("MinVoltagePU", "pu",
                Fmt(stats.MinVoltagePU.num, stats.MinVoltagePU.den * 1000, 3))>>]

\* lines 610-643: summary; "Network Coverage: 100.0%" is text of the template
HPSummaryText(street_name, scenario, stats) ==
    [street_name |-> street_name, scenario |-> scenario,
     analysis_date |-> 0,
     map_src |-> FileName("hp_feasibility_map", <<>>, ".html"),
     buildings_count |-> stats.BuildingsCount,
     fields |->
        <<Field("MaxTrafoLoading", "percent",
                Fmt(stats.MaxTrafoLoading.num, stats.MaxTrafoLoading.den, 2)),
          Field("MinVoltagePU", "pu",
                Fmt(stats.MinVoltagePU.num, stats.MinVoltagePU.den * 1000, 3)),
          Field("NetworkCoverage", "percent", Fmt(100, 1, 1)),
          Field("AvgDistLine", "m", Fmt(stats.AvgDistLine.num, stats.AvgDistLine.den, 1)),
          Field("AvgDistSubstation", "m",
                Fmt(stats.AvgDistSubstation.num, stats.AvgDistSubstation.den, 1)),
          Field("AvgDistTransformer", "m",
                Fmt(stats.AvgDistTransformer.num, stats.AvgDistTransformer.den, 1))>>]

\* lines 759-973: dashboard_html of run_comprehensive_dh_analysis
DHDashboard(street_name, stats, day) ==
    [street_name |-> street_name, scenario |-> "",
     analysis_date |-> day,
     map_src |-> IF stats.map_path THEN FileName("dh_network_map_", street_name, ".html")
                 ELSE FileName("dh_network_map", <<>>, ".html"),
     buildings_count |-> stats.network_stats.num_buildings,
     fields |->
        <<Field("total_main_length_km", "km",
                Fmt(stats.network_stats.total_main_length_km, 100, 2)),
          Field("pressure_drop_bar", "bar",
                Fmt(stats.simulation_results.pressure_drop_bar, 1000000, 6))>>]

\* the text a call returns, as far as its beginning: lines 271 and 648 (668 and
\* 1023), 307 (700), 611 (980)
ReturnedString(op, street_name, report) ==
    LET name == IF op = "run_comprehensive_hp_analysis" THEN "HP" ELSE "DH"
    IN  CASE report.kind = "error" /\ report.detail = "modules not available" ->
                <<"Error", ":", " Required modules from street_final_copy_3 are not available.">>
          [] report.kind = "error" ->
                <<"Error", " in comprehensive ", name, " analysis", ":", " ", report.detail>>
          [] report.kind = "nomatch" ->
                <<"No buildings found for street", ":", " ">> \o street_name
          [] OTHER ->
                <<"\n", IF name = "HP"
                        THEN "=== COMPREHENSIVE HEAT PUMP FEASIBILITY ANALYSIS ==="
                        ELSE "=== COMPREHENSIVE DISTRICT HEATING NETWORK ANALYSIS ===">>

---------------------------------------------------------------------------
(* The tool calls as actions; call records the last call and what it gave *)

NoEnv == [modules |-> TRUE, raises |-> "none", writes |-> "none"]

\* the part of the collaborator's behaviour that is not in the report
EnvOf(c) == [modules |-> c.modules, raises |-> c.raises, writes |-> c.writes]

NoCall ==
    [op |-> "none", street_name |-> <<>>, outcome |-> "none", value |-> <<>>,
     exc |-> "", from |-> <<>>, hit |-> {}, report |-> NoReport,
     scenario |-> "", text |-> <<>>, steps |-> <<>>, env |-> NoEnv,
     rendered |-> 0, before |-> EmptyResults]

\* the record of a call: what it returned or raised and, for a street filter, the
\* features its result came from (from, in result order) and those it matched (hit)
Called(op, street_name, res, sel) ==
    [op |-> op, street_name |-> street_name, outcome |-> res.outcome,
     value |-> res.value, exc |-> res.exc, from |-> sel.from, hit |-> sel.hit,
     report |-> NoReport,
     scenario |-> "", text |-> <<>>, steps |-> <<>>, env |-> NoEnv,
     rendered |-> 0, before |-> EmptyResults]

\* the record of an analysis call, which returns the string that report stands for:
\* its arguments, the steps it ran, the day datetime.now() gave when it rendered its
\* dashboard (0 when it did not), and results_test as the call found it
CalledAnalysis(op, street_name, scenario, report, steps, c, day, rt) ==
    [op |-> op, street_name |-> street_name, outcome |-> "return", value |-> <<>>,
     exc |-> "", from |-> report.sel, hit |-> {report.sel[k] : k \in 1..Len(report.sel)},
     report |-> report,
     scenario |-> scenario, text |-> ReturnedString(op, street_name, report), steps |-> steps,
     env |-> EnvOf(c),
     rendered |-> IF steps # <<>> /\ steps[Len(steps)] = "write_dashboard" THEN day ELSE 0,
     before |-> rt]

\* the stored street names of the files the analysis operations are run on
MaxStoredLen == 1

AnalysisFiles(nmax) ==
    {FileAbsent, FileCorrupt} \cup
    {FileOk(fs) :
        fs \in UNION {Colls(n, MaxEntries, {Entry(s) : s \in Strings(MaxStoredLen)} \cup {NoStr},
                            {AdrList(<<>>), AdrMissing, AdrText}) : n \in 0..nmax}}

AnalysisQueries == Strings(MaxStrLen)

\* the files the aggregator is run on: every feature on the one street "a"
HPFiles ==
    {FileOk(fs) :
        fs \in UNION {[1..n -> FeaturesWith(1, {Entry(<<"a">>)}, {})] : n \in 0..MaxFeatures}}

HPQueries == {<<"a">>, <<"A">>, <<"a", "a">>}

\* line 1157: the directories list_available_results looks into
output_dirs == <<"results_test", "results", "simulation_outputs">>

\* the output directories other than results_test, which no tool writes: neither exists
NoOthers == [results |-> EmptyResults, simulation_outputs |-> EmptyResults]

\* a process that has made no call: line 30, and a results_test not yet there
Fresh ==
    /\ call = NoCall
    /\ others = NoOthers
    /\ STREET_FINAL_AVAILABLE = FALSE
    /\ results_test = EmptyResults
    /\ today = 1

Init ==
    /\ file \in Files(MaxFeatures)
    /\ Fresh

\* the agent takes the returned value; the next call starts from there
TakeResult ==
    /\ call.op # "none"
    /\ call' = NoCall
    /\ UNCHANGED <<others, file, STREET_FINAL_AVAILABLE, results_test, today>>

GetAllStreetNames ==
    /\ call.op = "none"
    /\ call' = Called("get_all_street_names", <<>>, get_all_street_names(file),
                      NoSelection)
    /\ UNCHANGED <<others, file, STREET_FINAL_AVAILABLE, results_test, today>>

GetBuildingIdsForStreet(Q) ==
    /\ call.op = "none"
    /\ \E street_name \in Q :
        /\ call' = Called("get_building_ids_for_street", street_name,
                          get_building_ids_for_street(file, street_name),
                          IF get_building_ids_for_street(file, street_name).outcome = "return"
                             /\ file.kind = "ok"
                          THEN Selection(file, street_name) ELSE NoSelection)
        /\ UNCHANGED <<others, file, STREET_FINAL_AVAILABLE, results_test, today>>

\* one call of run_comprehensive_hp_analysis(street_name, scenario), the collaborator
\* behaving as c
RunHPAnalysis(Q, S, C) ==
    /\ call.op = "none"
    /\ \E street_name \in Q, scenario \in S, c \in C :
        /\ call' = CalledAnalysis("run_comprehensive_hp_analysis", street_name, scenario,
                                  run_comprehensive_hp_analysis(file, street_name, c),
                                  StepsTo(HPSteps, HPEnd(file, street_name, c).at),
                                  c, today, results_test)
        /\ STREET_FINAL_AVAILABLE' = FlagAfter(STREET_FINAL_AVAILABLE, c)
        /\ results_test' = hp_results_test(results_test, file, street_name, scenario, c)
        /\ UNCHANGED <<others, file, today>>

\* one call of run_comprehensive_dh_analysis(street_name)
RunDHAnalysis(Q, C) ==
    /\ call.op = "none"
    /\ \E street_name \in Q, c \in C :
        /\ call' = CalledAnalysis("run_comprehensive_dh_analysis", street_name, "",
                                  run_comprehensive_dh_analysis(file, street_name, c,
                                                                results_test),
                                  StepsTo(DHSteps,
                                          DHEnd(file, street_name, c, results_test).at),
                                  c, today, results_test)
        /\ STREET_FINAL_AVAILABLE' = FlagAfter(STREET_FINAL_AVAILABLE, c)
        /\ results_test' = dh_results_test(results_test, file, street_name, c)
        /\ UNCHANGED <<others, file, today>>

\* lines 1047-1076: comparison_summary, with the two result strings in it
ComparisonSummary(street_name, hp_scenario, hp_result, dh_result) ==
    <<"\n", "=== COMPREHENSIVE SCENARIO COMPARISON ===", "Street: ">> \o street_name
    \o <<"HP Scenario: ", hp_scenario, "HEAT PUMP (DECENTRALIZED) ANALYSIS:">>
    \o hp_result
    \o <<"DISTRICT HEATING (CENTRALIZED) ANALYSIS:">>
    \o dh_result
    \o <<"COMPARISON SUMMARY:", "RECOMMENDATION:",
          "Both solutions are technically feasible for ">> \o street_name
    \o <<" with proper infrastructure planning.">>

\* the record of the run_comprehensive_hp_analysis.func call of line 1041, made on
\* results_test rt
CompareHP(f, street_name, hp_scenario, c, day, rt) ==
    CalledAnalysis("run_comprehensive_hp_analysis", street_name, hp_scenario,
                   run_comprehensive_hp_analysis(f, street_name, c),
                   StepsTo(HPSteps, HPEnd(f, street_name, c).at), c, day, rt)

\* the record of the run_comprehensive_dh_analysis.func call of line 1044, made on
\* the results_test the HP call left
CompareDH(f, street_name, hp_scenario, c, day, rt) ==
    LET rt1 == hp_results_test(rt, f, street_name, hp_scenario, c)
    IN  CalledAnalysis("run_comprehensive_dh_analysis", street_name, "",
                       run_comprehensive_dh_analysis(f, street_name, c, rt1),
                       StepsTo(DHSteps, DHEnd(f, street_name, c, rt1).at), c, day, rt1)

\* variant: the DH analysis is left out when the HP analysis gave no summary
compare_comprehensive_scenarios_SkipDH(f, street_name, hp_scenario, c, day, rt) ==
    LET hp == CompareHP(f, street_name, hp_scenario, c, day, rt)
        dh == CompareDH(f, street_name, hp_scenario, c, day, rt)
    IN  [outcome |-> "return", exc |-> "",
         value |-> IF hp.report.kind = "summary" THEN <<hp, dh>> ELSE <<hp, hp>>,
         text |-> ComparisonSummary(street_name, hp_scenario, hp.text,
                                    IF hp.report.kind = "summary" THEN dh.text ELSE <<>>)]

\* lines 1025-1081: the two calls made, in the order made, and the returned string.
\* Both callees catch Exception themselves (lines 647, 1022), so the except of line
\* 1080 has nothing to catch
compare_comprehensive_scenarios(f, street_name, hp_scenario, c, day, rt) ==
    LET hp == CompareHP(f, street_name, hp_scenario, c, day, rt)
        dh == CompareDH(f, street_name, hp_scenario, c, day, rt)
    IN  [outcome |-> "return", exc |-> "",
         value |-> <<hp, dh>>,
         text |-> ComparisonSummary(street_name, hp_scenario, hp.text, dh.text)]

\* one call of compare_comprehensive_scenarios(street_name, hp_scenario)
RunCompare(Q, S, C) ==
    /\ call.op = "none"
    /\ \E street_name \in Q, hp_scenario \in S, c \in C :
        LET res == compare_comprehensive_scenarios(file, street_name, hp_scenario, c,
                                                   today, results_test)
        IN  /\ call' = [Called("compare_comprehensive_scenarios", street_name, res,
                               NoSelection)
                           EXCEPT !.scenario = hp_scenario,
                                  !.text = res.text,
                                  !.steps = <<res.value[1].op, res.value[2].op>>,
                                  !.env = EnvOf(c),
                                  !.before = results_test]
            /\ STREET_FINAL_AVAILABLE' = FlagAfter(FlagAfter(STREET_FINAL_AVAILABLE, c), c)
            /\ results_test' =
                  dh_results_test(hp_results_test(results_test, file, street_name,
                                                  hp_scenario, c),
                                  file, street_name, c)
            /\ UNCHANGED <<others, file, today>>

Next ==
    \/ GetAllStreetNames
    \/ GetBuildingIdsForStreet(Queries)
    \/ TakeResult

\* the two address functions on every bounded file
Spec == Init /\ [][Next]_vars

InitFilter ==
    /\ file \in AnalysisFiles(MaxFeatures)
    /\ Fresh

NextFilter ==
    \/ GetBuildingIdsForStreet(AnalysisQueries)
    \/ RunHPAnalysis(AnalysisQueries, {DefaultScenario}, {NominalCollab})
    \/ RunDHAnalysis(AnalysisQueries, {NominalCollab})
    \/ TakeResult

\* the three street filters side by side, the collaborator behaving nominally
SpecFilter == InitFilter /\ [][NextFilter]_vars

InitHP ==
    /\ file \in HPFiles
    /\ Fresh

NextHP ==
    \/ RunHPAnalysis(HPQueries, {DefaultScenario}, Collabs)
    \/ TakeResult

\* the aggregator under every bounded behaviour of the collaborator
SpecHP == InitHP /\ [][NextHP]_vars

\* the days the clock of the process runs through
MaxDay == 2

\* midnight passes
Tick ==
    /\ today < MaxDay
    /\ today' = today + 1
    /\ UNCHANGED <<others, file, call, STREET_FINAL_AVAILABLE, results_test>>

\* one building on street "a" with identifier "x"
RunFeature == [adressen |-> AdrList(<<Entry(<<"a">>)>>), oi |-> <<"x">>]

RunFiles == {FileAbsent, FileOk(<<RunFeature>>)}

RunQueries == {<<"a">>, <<"b">>}

\* the collaborator with power_metrics for building "x", its modules importing or
\* not, one of its calls (or a library call) raising or none, and the network
\* builder leaving a statistics file, a simulation file too, or neither
RunCollab(m, r, w) ==
    [NominalCollab EXCEPT !.metric_keys = {<<"x">>}, !.modules = m, !.raises = r,
                          !.writes = w]

RunCollabs ==
    {RunCollab(m, r, w) :
        m \in BOOLEAN,
        r \in {"none"} \cup Raising(HPSteps) \cup Raising(DHSteps),
        w \in {"none", "stats", "stats_simulation"}}

InitRun ==
    /\ file \in RunFiles
    /\ Fresh

NextRun ==
    \/ RunHPAnalysis(RunQueries, {DefaultScenario}, RunCollabs)
    \/ RunDHAnalysis(RunQueries, RunCollabs)
    \/ Tick
    \/ TakeResult

\* a process making analysis calls one after the other, the collaborator failing
\* where it may, over the days
SpecRun == InitRun /\ [][NextRun]_vars

\* the comparisons are made with two scenario labels, and with the collaborator
\* importing or not and failing in one step of either analysis or in none
NextCompare ==
    LET scenarios == {DefaultScenario, "sommer_sonntag_abendphase"}
        collabs == {RunCollab(m, r, "none") :
                       m \in BOOLEAN,
                       r \in {"none", "load_buildings", "output_results_table",
                              "to_file", "network"}}
    IN  \/ RunCompare(RunQueries, scenarios, collabs)
        \/ RunHPAnalysis(RunQueries, scenarios, collabs)
        \/ TakeResult

\* comparisons and heat pump analyses one after the other, for two scenarios
SpecCompare == InitRun /\ [][NextCompare]_vars

---------------------------------------------------------------------------
(* list_available_results *)

\* the characters of the extensions the analysis operations write
ExtChars ==
    [html    |-> <<".", "h", "t", "m", "l">>,
     csv     |-> <<".", "c", "s", "v">>,
     json    |-> <<".", "j", "s", "o", "n">>,
     png     |-> <<".", "p", "n", "g">>,
     jpg     |-> <<".", "j", "p", "g">>,
     geojson |-> <<".", "g", "e", "o", "j", "s", "o", "n">>]

\* the name of a file on disk, as characters: base, key and extension joined. The
\* base names of the analysis operations hold no dot and stand as one symbol; a
\* file that was there before has its whole name in key
NameChars(name) ==
    (IF name.base = "" THEN <<>> ELSE <<name.base>>) \o name.key \o
    (CASE name.ext = ".html" -> ExtChars.html
       [] name.ext = ".csv" -> ExtChars.csv
       [] name.ext = ".json" -> ExtChars.json
       [] name.ext = ".png" -> ExtChars.png
       [] name.ext = ".geojson" -> ExtChars.geojson
       [] OTHER -> <<>>)

\* str.endswith
EndsWith(s, suffix) ==
    Len(s) >= Len(suffix) /\ SubSeq(s, Len(s) - Len(suffix) + 1, Len(s)) = suffix

\* variant: the json test looks for the letters without the dot
Category_JsonLetters(f) ==
    IF EndsWith(f, ExtChars.html) THEN "web"
    ELSE IF EndsWith(f, ExtChars.csv) THEN "table"
    ELSE IF EndsWith(f, Tail(ExtChars.json)) THEN "data"
    ELSE IF EndsWith(f, ExtChars.png) \/ EndsWith(f, ExtChars.jpg) THEN "image"
    ELSE IF EndsWith(f, ExtChars.geojson) THEN "geometry"
    ELSE "file"

\* lines 1171-1182: the icon put before a file, under the name of what it stands
\* for (globe: web, bar chart: table, page: data, picture: image, map: geometry,
\* folder: file)
Category(f) ==
    IF EndsWith(f, ExtChars.html) THEN "web"
    ELSE IF EndsWith(f, ExtChars.csv) THEN "table"
    ELSE IF EndsWith(f, ExtChars.json) THEN "data"
    ELSE IF EndsWith(f, ExtChars.png) \/ EndsWith(f, ExtChars.jpg) THEN "image"
    ELSE IF EndsWith(f, ExtChars.geojson) THEN "geometry"
    ELSE "file"

\* os.path.getsize, as a measure that grows with what was written
getsize(f) ==
    f.content.num_buildings + f.content.total_main_length_km + f.content.pressure_drop_bar

\* lines 1166-1182: the line of one file, with its path relative to the root
ResultLine(f) ==
    [category |-> Category(NameChars(f.name)), dir |-> f.dir, file |-> NameChars(f.name),
     file_size |-> getsize(f)]

\* os.path.exists(output_dir): a root is there once something is in it
RootExists(tree) == tree.dirs # {} \/ tree.files # {}

\* lines 1159-1182: one block per root that exists, in the order of output_dirs: the
\* header line and the lines of the files below it. os.walk gives the files of a
\* directory in the order of the file system, which is left open: lines is a set
ResultBlocks(rt, oth) ==
    LET tree(root) == IF root = "results_test" THEN rt ELSE oth[root]
        there == SelectSeq(output_dirs, LAMBDA root : RootExists(tree(root)))
    IN  [i \in 1..Len(there) |->
            [root |-> there[i], lines |-> {ResultLine(f) : f \in tree(there[i]).files}]]

\* lines 1143-1190
list_available_results(rt, oth) ==
    LET results == ResultBlocks(rt, oth)
    IN  [outcome |-> "return", exc |-> "",
         value |-> results,
         text |-> IF results = <<>>
                  THEN <<"No results found. Run an analysis first to generate results.">>
                  ELSE <<"\n", "results">>]

\* one call of list_available_results()
ListAvailableResults ==
    /\ call.op = "none"
    /\ call' = [Called("list_available_results", <<>>,
                       list_available_results(results_test, others), NoSelection)
                   EXCEPT !.text = list_available_results(results_test, others).text,
                          !.before = results_test]
    /\ UNCHANGED <<others, file, STREET_FINAL_AVAILABLE, results_test, today>>

\* the longest name of a file that was there before, in segments
MaxSegments == 2

\* the pieces the names of such files are made of
Segments ==
    {<<"a">>, <<".">>, <<"j", "s", "o", "n">>, <<".", "t", "x", "t">>, <<".", "g", "e", "o">>,
     ExtChars.html, ExtChars.csv, ExtChars.json, ExtChars.png, ExtChars.jpg,
     ExtChars.geojson}

RECURSIVE Names(_)
Names(n) ==
    IF n = 0 THEN {<<>>}
    ELSE Names(n - 1) \cup {a \o b : a \in Names(n - 1), b \in Segments}

\* a file nobody of this process wrote
OldFile(dir, chars, content) ==
    [dir |-> dir, name |-> FileName("", chars, ""), by |-> By("", <<>>, ""),
     content |-> content]

\* the trees with at most one file, named from names, in one of dirs
OldTrees(names, dirs, contents) ==
    {EmptyResults} \cup
    {[dirs |-> {d} \ {""}, files |-> {OldFile(d, n, c)}] :
        d \in dirs, n \in names \ {<<>>}, c \in contents}

InitList ==
    /\ call = NoCall
    /\ STREET_FINAL_AVAILABLE = FALSE
    /\ today = 1
    /\ file = FileOk(<<RunFeature>>)
    /\ results_test \in OldTrees(Names(MaxSegments), {"", "dh_analysis"},
                                 {NoContent, BuiltStats(1)})
    /\ others \in [results : OldTrees(Names(1), {"", "sub"}, {NoContent}),
                   simulation_outputs : OldTrees({<<"a">> \o ExtChars.geojson}, {""},
                                                 {BuiltSimulation})]

NextList ==
    \/ RunDHAnalysis({<<"a">>}, {RunCollab(TRUE, "none", "stats_simulation")})
    \/ ListAvailableResults
    \/ TakeResult

\* listings of output directories that hold a file from before and what
\* run_comprehensive_dh_analysis writes
SpecList == InitList /\ [][NextList]_vars

---------------------------------------------------------------------------
(* Claims about the address index and get_building_ids_for_street *)

\* trimmed and case-folded, as the specification words the comparison
Norm(s) == Lower(Strip(s))

IdsCall == call.op = "get_building_ids_for_street" /\ file.kind = "ok"

NamesCall == call.op = "get_all_street_names" /\ file.kind = "ok"

Feats == file.features

\* the street values of feature i that are strings (the entry has a "str")
StreetsOf(i) ==
    {AdrItems(Feats[i])[j].str :
        j \in {k \in 1..Len(AdrItems(Feats[i])) : AdrItems(Feats[i])[k].present}}

Range(seq) == {seq[k] : k \in 1..Len(seq)}

\* the features of the collection one of whose non-empty street values has the
\* normal form of q
Carriers(q) ==
    {i \in 1..Len(Feats) : \E s \in StreetsOf(i) : s # <<>> /\ Norm(s) = Norm(q)}

\* C3 as stated: for every street name returned by get_all_street_names,
\* get_building_ids_for_street called with that name on the same collection returns
\* a non-empty sequence.
C3_Original ==
    NamesCall =>
        \A name \in Range(call.value) :
            get_building_ids_for_street(file, name).value # <<>>

\* C3 (amended): for every street name returned by get_all_street_names,
\* get_building_ids_for_street called with that name matches at least one feature
\* of the same collection, and returns a non-empty sequence exactly when one of the
\* matched features has a non-empty gebaeude.oi (a matched feature without an
\* identifier contributes nothing).
C3_ListedStreetsMatch ==
    NamesCall =>
        \A name \in Range(call.value) :
            /\ Selection(file, name).hit # {}
            /\ Selection(file, name).hit = Carriers(name)
            /\ get_building_ids_for_street(file, name).outcome = "return"
            /\ get_building_ids_for_street(file, name).value # <<>>
                  <=> \E i \in Carriers(name) : Feats[i].oi # NoId

\* C3 witness: a listed name that differs from the stored street value and whose
\* lookup returns an identifier
C3_Witness ==
    /\ NamesCall
    /\ \E name \in Range(call.value) :
          /\ name # <<>>
          /\ get_building_ids_for_street(file, name).value # <<>>
          /\ \A i \in 1..Len(Feats) : name \notin StreetsOf(i)

\* C4: when the file exists and holds a feature collection none of whose address
\* entries matches the query, get_building_ids_for_street returns the empty
\* sequence: it does not raise, and what it returns differs from what it returns
\* when the file is absent.
C4_NoMatchIsEmpty ==
    (IdsCall /\ Carriers(call.street_name) = {}) =>
        /\ call.outcome = "return"
        /\ call.value = <<>>
        /\ get_building_ids_for_street(FileAbsent, call.street_name).outcome = "return"
        /\ get_building_ids_for_street(FileAbsent, call.street_name).value # call.value

\* C4 witness: a collection with street values, none of them the query's
C4_Witness ==
    /\ IdsCall
    /\ Carriers(call.street_name) = {}
    /\ \E i \in 1..Len(Feats) : \E s \in StreetsOf(i) : s # <<>>
    /\ \E i \in 1..Len(Feats) : Feats[i].oi # NoId
    /\ call.outcome = "return"

\* C5 as stated: get_all_street_names returns exactly the set of trimmed street
\* values of all address entries of all features, without duplicates, ascending,
\* every name trimmed.
C5_Original ==
    NamesCall =>
        /\ call.outcome = "return"
        /\ Range(call.value) = UNION {{Strip(s) : s \in StreetsOf(i)} : i \in 1..Len(Feats)}
        /\ \A k \in 1..Len(call.value) - 1 : StrLess(call.value[k], call.value[k + 1])
        /\ \A name \in Range(call.value) : Strip(name) = name

\* C5 (amended): get_all_street_names returns exactly the set of trimmed street
\* values of the address entries whose street value is not empty (an entry without
\* a street, or with the empty string, is skipped; a blank one yields the empty
\* name), without duplicates, in ascending order, every name trimmed.
C5_SortedUniqueTrimmed ==
    NamesCall =>
        /\ call.outcome = "return"
        /\ Range(call.value) =
              UNION {{Strip(s) : s \in StreetsOf(i) \ {<<>>}} : i \in 1..Len(Feats)}
        /\ \A k \in 1..Len(call.value) - 1 : StrLess(call.value[k], call.value[k + 1])
        /\ \A name \in Range(call.value) : Strip(name) = name

\* C5 witness: two names returned, one of them stored with padding
C5_Witness ==
    /\ NamesCall
    /\ Len(call.value) >= 2
    /\ \E i \in 1..Len(Feats) : \E s \in StreetsOf(i) : Strip(s) # s /\ Strip(s) # <<>>

\* C6 as stated: with the file absent get_all_street_names gives an error outcome
\* a caller can tell apart from a result sequence of street names, i.e. no
\* collection gives the same outcome.
C6_Original ==
    NamesCall =>
        <<call.outcome, call.value>> #
            <<get_all_street_names(FileAbsent).outcome, get_all_street_names(FileAbsent).value>>

\* C6 (amended): with the file absent get_all_street_names returns (it does not
\* raise) the one-element sequence holding the message "Error: The main data file
\* was not found at the specified path."; a caller can tell this apart from the
\* result for every collection except one whose only street name is that message.
C6_AbsentFileMessage ==
    /\ (call.op = "get_all_street_names" /\ file.kind = "absent") =>
          call.outcome = "return" /\ call.value = <<ErrorMsg>>
    /\ (NamesCall /\ call.value = <<ErrorMsg>>) =>
          /\ \E i \in 1..Len(Feats) : \E s \in StreetsOf(i) : s = ErrorMsg
          /\ \A i \in 1..Len(Feats) : \A s \in StreetsOf(i) \ {<<>>} : Strip(s) = ErrorMsg

\* C6 witness: the call made with the file absent
C6_Witness ==
    /\ call.op = "get_all_street_names"
    /\ file.kind = "absent"
    /\ call.value = <<ErrorMsg>>

---------------------------------------------------------------------------
(* Claims about the street filter of the analysis operations *)

\* how often x occurs in seq
Count(seq, x) == Cardinality({k \in 1..Len(seq) : seq[k] = x})

\* an analysis call whose street filter ran to its end
FilterRan ==
    /\ call.op \in {"run_comprehensive_hp_analysis", "run_comprehensive_dh_analysis"}
    /\ file.kind = "ok"
    /\ call.report.kind \in {"nomatch", "summary"}

IdsReturned == IdsCall /\ call.outcome = "return"

MatchingEntries(i) ==
    {j \in 1..Len(AdrItems(Feats[i])) :
        /\ AdrItems(Feats[i])[j].present
        /\ AdrItems(Feats[i])[j].str # <<>>
        /\ Norm(AdrItems(Feats[i])[j].str) = Norm(call.street_name)}

C7_Original ==
    FilterRan =>
        /\ call.hit = Carriers(call.street_name)
        /\ get_building_ids_for_street(file, call.street_name).outcome = "return" =>
              call.hit = Selection(file, call.street_name).hit

\* C21: the result of the street filter (the identifiers of
\* get_building_ids_for_street and the rows of the analysis operations) is in
\* discovery order: of two selected buildings the one whose feature comes first
\* in the feature collection comes first in the result.
C21_DiscoveryOrder ==
    (IdsReturned \/ FilterRan) =>
        /\ \A k1, k2 \in 1..Len(call.from) : k1 < k2 => call.from[k1] < call.from[k2]
        /\ IdsReturned =>
              /\ Len(call.value) = Len(call.from)
              /\ \A k \in 1..Len(call.from) : call.value[k] = Feats[call.from[k]].oi
        /\ FilterRan => call.from = call.report.sel

\* C21 witness: two buildings with different identifiers selected
C21_Witness ==
    /\ IdsReturned
    /\ Len(call.from) >= 2
    /\ call.value[1] # call.value[2]

---------------------------------------------------------------------------
(* Claims about the result aggregator *)

HPSummary == call.op = "run_comprehensive_hp_analysis" /\ call.report.kind = "summary"

Rows == call.report.rows

C9_MissingIsUnknown ==
    HPSummary =>
        \A k \in 1..Len(Rows) :
            LET r == Rows[k]
                id == r.building_id
            IN  IF ~id.null /\ id.v \in call.report.metric_keys
                THEN /\ r.max_trafo_loading = Num(EntryOf(id.v).max_loading)
                     /\ r.min_voltage_pu = Num(EntryOf(id.v).min_voltage)
                ELSE /\ r.max_trafo_loading = NaN
                     /\ r.min_voltage_pu = NaN

\* C9 witness: one row with an entry and one without
C9_Witness ==
    /\ HPSummary
    /\ \E k \in 1..Len(Rows) : Rows[k].max_trafo_loading = NaN
    /\ \E k \in 1..Len(Rows) : Rows[k].max_trafo_loading.known

\* C10 as stated: when every value of a metric column is unknown, the statistic
\* reported for that column is unknown, not a number.
C10_Original ==
    HPSummary =>
        /\ AllNaN(ColumnOf(Rows, "max_trafo_loading")) => ~call.report.stats.MaxTrafoLoading.known
        /\ AllNaN(ColumnOf(Rows, "min_voltage_pu")) => ~call.report.stats.MinVoltagePU.known
        /\ AllNaN(ColumnOf(Rows, "dist_to_line")) => ~call.report.stats.AvgDistLine.known
        /\ AllNaN(ColumnOf(Rows, "dist_to_transformer")) =>
              ~call.report.stats.AvgDistTransformer.known
        /\ AllNaN(ColumnOf(Rows, "dist_to_substation")) =>
              ~call.report.stats.AvgDistSubstation.known

\* the sum of the known values of col at the positions in S
RECURSIVE SumKnown(_, _)
SumKnown(S, col) ==
    IF S = {} THEN 0
    ELSE LET k == CHOOSE x \in S : TRUE
         IN  col[k].v + SumKnown(S \ {k}, col)

\* stat is the mean of the known values of col
IsMeanOfKnown(stat, col) ==
    LET K == {k \in 1..Len(col) : col[k].known}
    IN  stat.known /\ stat.den > 0 /\ stat.num * Cardinality(K) = SumKnown(K, col) * stat.den

\* C11: when a metric column has at least one known value, its statistic is computed
\* over the known values only: MaxTrafoLoading is the largest known loading,
\* MinVoltagePU the smallest known voltage, each average distance the sum of the
\* known distances divided by their number; a row with NaN is not counted as 0.
C11_KnownValuesOnly ==
    HPSummary =>
        LET loading == ColumnOf(Rows, "max_trafo_loading")
            voltage == ColumnOf(Rows, "min_voltage_pu")
            stats == call.report.stats
            Vals(col) == {col[k].v : k \in {j \in 1..Len(col) : col[j].known}}
        IN  /\ ~AllNaN(loading) =>
                  /\ stats.MaxTrafoLoading.known /\ stats.MaxTrafoLoading.den = 1
                  /\ stats.MaxTrafoLoading.num \in Vals(loading)
                  /\ \A v \in Vals(loading) : v <= stats.MaxTrafoLoading.num
            /\ ~AllNaN(voltage) =>
                  /\ stats.MinVoltagePU.known /\ stats.MinVoltagePU.den = 1
                  /\ stats.MinVoltagePU.num \in Vals(voltage)
                  /\ \A v \in Vals(voltage) : stats.MinVoltagePU.num <= v
            /\ ~AllNaN(ColumnOf(Rows, "dist_to_line")) =>
                  IsMeanOfKnown(stats.AvgDistLine, ColumnOf(Rows, "dist_to_line"))
            /\ ~AllNaN(ColumnOf(Rows, "dist_to_transformer")) =>
                  IsMeanOfKnown(stats.AvgDistTransformer, ColumnOf(Rows, "dist_to_transformer"))
            /\ ~AllNaN(ColumnOf(Rows, "dist_to_substation")) =>
                  IsMeanOfKnown(stats.AvgDistSubstation, ColumnOf(Rows, "dist_to_substation"))

\* C11 witness: two rows, one loading known and one missing, one distance to the
\* transformer known and one missing, the two known loadings of another column apart
C11_Witness ==
    /\ HPSummary
    /\ Len(Rows) = 2
    /\ Rows[1].max_trafo_loading.known /\ ~Rows[2].max_trafo_loading.known
    /\ Rows[1].dist_to_transformer.known /\ ~Rows[2].dist_to_transformer.known
    /\ Rows[1].dist_to_line.known /\ Rows[2].dist_to_line.known
    /\ Rows[1].dist_to_line # Rows[2].dist_to_line

---------------------------------------------------------------------------
(* Claims about failures *)

\* C13 as stated: no tool operation lets a failure escape as an exception; every
\* invocation, whatever the file holds, ends by returning a value.
C13_Original == call.op # "none" => call.outcome = "return"

AnalysisCall ==
    call.op \in {"run_comprehensive_hp_analysis", "run_comprehensive_dh_analysis"}

\* str.startswith
StartsWith(text, prefix) ==
    Len(text) >= Len(prefix) /\ SubSeq(text, 1, Len(prefix)) = prefix

ErrorPrefix == <<"Error", ":">>

\* C12 as stated: every failure outcome of an analysis call is returned as a string
\* that begins with "Error:", and every other returned string is a success report.
C12_Original ==
    AnalysisCall =>
        /\ call.report.kind = "error" => StartsWith(call.text, ErrorPrefix)
        /\ ~StartsWith(call.text, ErrorPrefix) => call.report.kind = "summary"

\* C14 as stated: when the network construction or map creation of
\* run_comprehensive_dh_analysis fails, the call returns an error outcome, never a
\* success report.
C14_Original ==
    (/\ call.op = "run_comprehensive_dh_analysis"
     /\ call.env.raises = "network"
     /\ "network" \in Range(call.steps)) => call.report.kind = "error"

\* C15 as stated, for a process in which a load has succeeded
\* (STREET_FINAL_AVAILABLE is TRUE): the flag keeps its value, and an analysis call
\* uses it instead of attempting the load again.
C15_Original ==
    [][STREET_FINAL_AVAILABLE =>
          /\ STREET_FINAL_AVAILABLE'
          /\ (call.op = "none" /\ call'.op # "none") => "import" \notin Range(call'.steps)]_vars

\* the report the call of this state gives in a process that has made no call
\* before, with the same arguments, file and collaborator behaviour
FreshReport ==
    LET c == RunCollab(call.env.modules, call.env.raises, call.env.writes)
    IN  IF call.op = "run_comprehensive_hp_analysis"
        THEN run_comprehensive_hp_analysis(file, call.street_name, c)
        ELSE run_comprehensive_dh_analysis(file, call.street_name, c, EmptyResults)

\* C16 as stated: the report of an analysis call is the same whatever calls came
\* before it in the process; nothing an earlier call left in the output directory
\* influences it.
C16_Original == AnalysisCall => call.report = FreshReport

\* C17: when the import of the collaborator fails (import_street_final_modules
\* returns None), run_comprehensive_hp_analysis and run_comprehensive_dh_analysis
\* return "Error: Required modules from street_final_copy_3 are not available."
\* having run no step but the import: no building data read, no collaborator
\* function called, results_test left as it was.
C17_UnavailableNoEffects ==
    (AnalysisCall /\ ~call.env.modules /\ call.env.raises # "import") =>
        /\ call.report.kind = "error"
        /\ call.text = <<"Error", ":",
                         " Required modules from street_final_copy_3 are not available.">>
        /\ call.steps = <<"import">>
        /\ results_test = call.before
        /\ ~STREET_FINAL_AVAILABLE

\* C17 witness: the import fails in a call for a street that has a building, made
\* after an earlier call left files in results_test
C17_Witness ==
    /\ AnalysisCall /\ ~call.env.modules /\ call.env.raises = "none"
    /\ file.kind = "ok" /\ call.street_name = <<"a">>
    /\ call.before.files # {}
    /\ call.text[1] = "Error"

\* a call that rendered its dashboard and returned its summary
Rendered == AnalysisCall /\ call.report.kind = "summary" /\ call.rendered # 0

\* the dashboard text of the call of this state, had it been rendered on day
DashboardOn(day) ==
    IF call.op = "run_comprehensive_hp_analysis"
    THEN HPDashboard(call.street_name, call.scenario, call.report.stats, day)
    ELSE DHDashboard(call.street_name, call.report.stats, day)

Decimals(doc, unit) ==
    {Len(doc.fields[i].text.frac) : i \in {j \in 1..Len(doc.fields) : doc.fields[j].unit = unit}}

\* C19 as stated: in the HTML dashboard and in the plain-text summary of the HP
\* report, every percentage has 2 decimals, every per-unit voltage 3 and every
\* distance in metres 0.
C19_Original ==
    HPSummary =>
        \A doc \in {HPDashboard(call.street_name, call.scenario, call.report.stats,
                                call.rendered),
                    HPSummaryText(call.street_name, call.scenario, call.report.stats)} :
            /\ Decimals(doc, "percent") \subseteq {2}
            /\ Decimals(doc, "pu") \subseteq {3}
            /\ Decimals(doc, "m") \subseteq {0}

---------------------------------------------------------------------------
(* Claims about list_available_results *)

Listed == call.op = "list_available_results" /\ call.outcome = "return"

\* the lines of the files in the listing of this state
ListedLines == UNION {call.value[i].lines : i \in 1..Len(call.value)}

\* the extension of a file name: what follows its last dot, nothing without a dot
Extension(f) ==
    LET dots == {i \in 1..Len(f) : f[i] = "."}
    IN  IF dots = {} THEN <<>>
        ELSE SubSeq(f, (CHOOSE i \in dots : \A k \in dots : k <= i) + 1, Len(f))

\* the mapping of the specification
CategoryOfExtension(ext) ==
    CASE ext = <<"h", "t", "m", "l">> -> "web"
      [] ext = <<"c", "s", "v">> -> "table"
      [] ext = <<"j", "s", "o", "n">> -> "data"
      [] ext = <<"p", "n", "g">> -> "image"
      [] ext = <<"j", "p", "g">> -> "image"
      [] ext = <<"g", "e", "o", "j", "s", "o", "n">> -> "geometry"
      [] OTHER -> "file"

\* C20: list_available_results gives each file below an output directory exactly
\* one line, whose category is that of the file's extension under the mapping
\* html -> web, csv -> table, json -> data, png or jpg -> image, geojson ->
\* geometry, anything else -> file; a .geojson file is never data, and two files
\* of the same extension have the same category whatever their directory and size.
C20_CategoryByExtension ==
    Listed =>
        /\ \A l \in ListedLines :
              /\ l.category = CategoryOfExtension(Extension(l.file))
              /\ Extension(l.file) = <<"g", "e", "o", "j", "s", "o", "n">> => l.category # "data"
        /\ \A l1, l2 \in ListedLines :
              Extension(l1.file) = Extension(l2.file) => l1.category = l2.category
        /\ \A i \in 1..Len(call.value) :
              LET tree == IF call.value[i].root = "results_test" THEN results_test
                          ELSE others[call.value[i].root]
              IN  \A f \in tree.files :
                     Cardinality({l \in call.value[i].lines :
                                     l.dir = f.dir /\ l.file = NameChars(f.name)}) = 1

\* C20 witness: a listing with the buildings file run_comprehensive_dh_analysis wrote
\* and a .geojson file of another size in another output directory, both geometry
C20_Witness ==
    /\ Listed
    /\ \E i, j \in 1..Len(call.value) :
          /\ i # j
          /\ \E l1 \in call.value[i].lines, l2 \in call.value[j].lines :
                /\ l1.file = <<"buildings_", "a">> \o ExtChars.geojson
                /\ l1.dir = "dh_analysis"
                /\ Extension(l2.file) = Extension(l1.file)
                /\ l1.file_size # l2.file_size
                /\ l1.category = "geometry" /\ l2.category = "geometry"

---------------------------------------------------------------------------
(* Claims about the steps of the analysis operations *)

HPCalled == call.op = "run_comprehensive_hp_analysis"

\* the order of the steps as the specification gives it
StatedOrder ==
    <<"load_buildings", "filter", "load_power_infrastructure", "compute_proximity",
      "compute_service_lines_street_following", "compute_power_feasibility", "merge",
      "visualize", "output_results_table", "write_dashboard">>

\* the steps of the call of this state that the specification names
StatedSteps == SelectSeq(call.steps, LAMBDA step : step \in Range(StatedOrder))

\* the files a step of run_comprehensive_hp_analysis that did not run would have written
\* are as the call found them
LaterFilesUntouched ==
    \A step \in DOMAIN HPWrites :
        step \notin Range(call.steps) =>
            \A name \in HPWrites[step] :
                {f \in results_test.files : f.dir = "hp_analysis" /\ f.name = name} =
                {f \in call.before.files : f.dir = "hp_analysis" /\ f.name = name}

\* C22: in one run_comprehensive_hp_analysis call the steps run in the order load
\* buildings, filter, load power infrastructure, compute_proximity,
\* compute_service_lines_street_following, compute_power_feasibility, merge,
\* visualize, output_results_table, write dashboard, each at most once; the summary
\* is returned and the dashboard written only after every step ran, and a step
\* that raises is the last one: the call returns an error string and the files of
\* the later steps are not written.
C22_StepsInOrder ==
    HPCalled =>
        /\ StatedSteps = SubSeq(StatedOrder, 1, Len(StatedSteps))
        /\ call.report.kind = "summary" =>
              /\ StatedSteps = StatedOrder
              /\ call.env.raises \notin Range(call.steps)
              /\ \E f \in results_test.files :
                    /\ f.name = FileName("hp_feasibility_dashboard", <<>>, ".html")
                    /\ f.by = By(call.op, call.street_name, call.scenario)
        /\ call.env.raises \in Range(call.steps) =>
              /\ call.steps[Len(call.steps)] = call.env.raises
              /\ call.report.kind = "error"
              /\ call.text[1] = "Error"
        /\ LaterFilesUntouched

\* C22 witness: compute_proximity raises in a call made after one that left files
\* in results_test
C22_Witness ==
    /\ HPCalled
    /\ call.env.raises = "compute_proximity"
    /\ call.steps[Len(call.steps)] = "compute_proximity"
    /\ call.before.files # {}

\* no address entry of a feature passes the test of line 300 / 693 for the street
\* of the call
NoBuildingMatches ==
    \A i \in 1..Len(Feats) :
        Feats[i].adressen.kind = "list" =>
            \A j \in 1..Len(AdrItems(Feats[i])) :
                ~FilterMatches(AdrItems(Feats[i])[j], call.street_name)

\* the steps that come after the street filter in either analysis operation
AfterFilter ==
    {"load_power_infrastructure", "read_streets", "compute_proximity",
     "compute_service_lines_street_following", "compute_power_feasibility", "merge",
     "visualize", "output_results_table", "chart_transformer", "chart_line", "to_file",
     "network", "read_stats", "read_simulation", "write_dashboard"}

\* C23: when the filter runs and no building matches the street,
\* run_comprehensive_hp_analysis and run_comprehensive_dh_analysis return "No
\* buildings found for street: <street_name>", make no call after the filter (no
\* power-infrastructure load, no compute or visualize call, no network) and leave
\* every file under results_test as it was.
C23_NoMatchNoFiles ==
    (AnalysisCall /\ file.kind = "ok" /\ ~FilterRaises(Feats) /\ NoBuildingMatches) =>
        /\ call.report.kind = "nomatch"
        /\ call.text = <<"No buildings found for street", ":", " ">> \o call.street_name
        /\ Range(call.steps) \cap AfterFilter = {}
        /\ call.steps[Len(call.steps)] = "filter"
        /\ results_test.files = call.before.files

\* C23 witness: a call for a street of no building, in a collection that has
\* buildings, after an earlier call wrote its files
C23_Witness ==
    /\ AnalysisCall /\ file.kind = "ok" /\ ~FilterRaises(Feats) /\ NoBuildingMatches
    /\ Len(Feats) >= 1
    /\ call.street_name # <<>>
    /\ call.before.files # {}
    /\ call.report.kind = "nomatch"

CompareCalled == call.op = "compare_comprehensive_scenarios"

\* part is in text from position a + 1 on
OccursAt(text, part, a) == SubSeq(text, a + 1, a + Len(part)) = part

\* the collaborator of the call of this state
CallCollab == RunCollab(call.env.modules, call.env.raises, call.env.writes)

\* C24: compare_comprehensive_scenarios makes two calls, run_comprehensive_hp_analysis
\* first and run_comprehensive_dh_analysis second, once each; the DH call is made on
\* what the HP call left, whatever string the HP call returned; the comparison holds
\* the HP string and after it the DH string, unchanged, and is an error string in
\* no case where both calls return.
C24_HPThenDH ==
    CompareCalled =>
        LET hp == call.value[1]
            dh == call.value[2]
            hp_report == run_comprehensive_hp_analysis(file, call.street_name, CallCollab)
            rt1 == hp_results_test(call.before, file, call.street_name, call.scenario,
                                   CallCollab)
        IN  /\ Len(call.value) = 2
            /\ call.steps = <<"run_comprehensive_hp_analysis", "run_comprehensive_dh_analysis">>
            /\ hp.op = "run_comprehensive_hp_analysis" /\ hp.before = call.before
            /\ hp.street_name = call.street_name /\ hp.scenario = call.scenario
            /\ hp.report = hp_report
            /\ dh.op = "run_comprehensive_dh_analysis" /\ dh.before = rt1
            /\ dh.street_name = call.street_name
            /\ dh.report = run_comprehensive_dh_analysis(file, call.street_name, CallCollab, rt1)
            /\ results_test = dh_results_test(rt1, file, call.street_name, CallCollab)
            /\ \E a \in 1..Len(call.text) - Len(hp.text),
                  b \in 1..Len(call.text) - Len(dh.text) :
                  /\ a + Len(hp.text) < b
                  /\ OccursAt(call.text, hp.text, a)
                  /\ call.text[a] = "HEAT PUMP (DECENTRALIZED) ANALYSIS:"
                  /\ OccursAt(call.text, dh.text, b)
                  /\ call.text[b] = "DISTRICT HEATING (CENTRALIZED) ANALYSIS:"
            /\ call.outcome = "return"
            /\ call.text[2] = "=== COMPREHENSIVE SCENARIO COMPARISON ==="

\* C24 witness: the HP call returned an error string, the DH call ran all the same
\* and returned its summary
C24_Witness ==
    /\ CompareCalled
    /\ call.value[1].report.kind = "error"
    /\ call.value[1].text[1] = "Error"
    /\ call.value[2].report.kind = "summary"
    /\ "write_dashboard" \in Range(call.value[2].steps)

---------------------------------------------------------------------------
(* Claims about the files under results_test *)

\* the files of that name under results_test/hp_analysis in rt
HPFilesNamed(rt, base) ==
    {f \in rt.files : f.dir = "hp_analysis" /\ f.name = FileName(base, <<>>, ".html")}

\* the invocation of this state, as the files it writes name it
ThisCall == By(call.op, call.street_name, call.scenario)

\* C25 as stated: after any sequence of run_comprehensive_hp_analysis calls,
\* calls that fail part-way included, the map file and the dashboard file under
\* results_test/hp_analysis were produced by the same call: both describe the
\* same street and scenario.
C25_Original ==
    \A m \in HPFilesNamed(results_test, "hp_feasibility_map"),
       d \in HPFilesNamed(results_test, "hp_feasibility_dashboard") : m.by = d.by

\* C25 (amended): after a run_comprehensive_hp_analysis call that returns its
\* summary, the map file and the dashboard file under results_test/hp_analysis
\* are both there and were both produced by that call; a call that fails after
\* visualize and before the dashboard is written leaves its own map next to
\* whatever dashboard an earlier call wrote.
C25_SameCallAfterSummary ==
    HPCalled =>
        /\ call.report.kind = "summary" =>
              /\ HPFilesNamed(results_test, "hp_feasibility_map") # {}
              /\ HPFilesNamed(results_test, "hp_feasibility_dashboard") # {}
              /\ \A f \in HPFilesNamed(results_test, "hp_feasibility_map") \cup
                          HPFilesNamed(results_test, "hp_feasibility_dashboard") :
                    f.by = ThisCall
        /\ (call.report.kind = "error" /\ "output_results_table" \in Range(call.steps)) =>
              /\ HPFilesNamed(results_test, "hp_feasibility_map") # {}
              /\ \A m \in HPFilesNamed(results_test, "hp_feasibility_map") : m.by = ThisCall
              /\ HPFilesNamed(results_test, "hp_feasibility_dashboard") =
                    HPFilesNamed(call.before, "hp_feasibility_dashboard")

\* C25 witness: a call returns its summary where an earlier call for another
\* scenario had left its map and dashboard
C25_Witness ==
    /\ HPCalled /\ call.report.kind = "summary"
    /\ \E m \in HPFilesNamed(call.before, "hp_feasibility_map"),
          d \in HPFilesNamed(call.before, "hp_feasibility_dashboard") :
          m.by # ThisCall /\ d.by # ThisCall

(***************************************************************************)
(* Claims about the pipe density of run_comprehensive_dh_analysis          *)
(***************************************************************************)

DHCalled == call.op = "run_comprehensive_dh_analysis"

\* the building counts the call of this state divided 1.84 by
DivisorsOfCall == DensityDivisors(file, call.street_name, CallCollab, call.before)

\* C26: in run_comprehensive_dh_analysis every evaluation of
\* 1.84 / len(street_buildings) happens with a building count of at least 1:
\* the return on an empty selection comes before all of them, so no call ends
\* in a division by zero.
C26_NoDivisionByZero ==
    DHCalled =>
        /\ \A k \in 1..Len(DivisorsOfCall) : DivisorsOfCall[k] >= 1
        /\ call.report.detail # "ZeroDivisionError"
        /\ Len(street_buildings(file.features, call.street_name)) = 0 =>
              DivisorsOfCall = <<>>

\* C26 witness: a call that found no statistics file divides at all three
\* places and returns its summary
C26_Witness ==
    /\ DHCalled /\ call.report.kind = "summary"
    /\ Len(DivisorsOfCall) = 3
    /\ DivisorsOfCall[1] >= 1

===========================================================================
